---------------------------- MODULE Spec2Model ----------------------------
(***************************************************************************)
(* CodeScope: the ingestion orchestrator (backend/app/services/            *)
(* ingestion.py), its HTTP trigger (backend/app/api/endpoints.py) and the  *)
(* hybrid ranker (backend/app/services/hybrid_search.py).                  *)
(*                                                                         *)
(* Representation.  The Index Store is a list of records in the order its  *)
(* get() returns them.  A record is identified by the run that inserted it *)
(* and the position of its chunk in that run's chunk list; consecutive     *)
(* records of one run are kept as one segment [gen, repo, lo, hi] (a       *)
(* run-length encoding of the record list, so that stores of 12,000        *)
(* records stay small states).  A chunk's text and metadata are determined *)
(* by (repo, index).                                                       *)
(***************************************************************************)
EXTENDS Integers, Sequences, FiniteSets, TLC

\* ------------------------------------------------------------ constants

\* ingestion.py:26
BATCH_SIZE == 166
\* ingestion.py:27
BATCH_DELETE_LIMIT == 5000

\* Bounds of the model.
MaxRuns == 2
MaxFaults == 2

Min(a, b) == IF a < b THEN a ELSE b

\* ------------------------------------------------------ the file system
\* Repositories the ingestion is pointed at.  Each is what os.path.exists,
\* load_documents and the splitters make of one directory tree: whether the
\* path exists, how many documents load, how many chunks the splitters
\* produce, and what the entity extraction does on it.

Paths == {"missing", "nofiles", "blank", "tiny", "lib", "wide"}
SmallPaths == {"missing", "nofiles", "blank", "solo", "lone", "tiny", "trio"}
\* the paths ingest_repository_stream is called with directly
DirectPaths == {"missing", "tiny"}
\* the repositories an earlier session may have left in the store
PriorPaths == {"nofiles", "tiny", "mid", "huge"}

PathExists(p) == p # "missing"

\* len(load_documents(p)): the number of loaded allow-listed files
FilesOf(p) ==
    CASE p = "missing" -> 0
      [] p = "nofiles" -> 0
      [] p = "blank"   -> 1
      [] p = "tiny"    -> 1
      [] p = "solo"    -> 1
      [] p = "lone"    -> 1
      [] p = "trio"    -> 2
      [] p = "lib"     -> 2
      [] p = "wide"    -> 5
      [] p = "mid"     -> 40
      [] p = "huge"    -> 90

\* len(chunks) after the splitters ran over the loaded documents
ChunksOf(p) ==
    CASE p = "missing" -> 0
      [] p = "nofiles" -> 0
      [] p = "blank"   -> 0
      [] p = "tiny"    -> 2
      [] p = "solo"    -> 1
      [] p = "lone"    -> 1
      [] p = "trio"    -> 3
      [] p = "lib"     -> 167
      [] p = "wide"    -> 332
      [] p = "mid"     -> 5000
      [] p = "huge"    -> 12000

\* outcome of the code-intelligence step on the repository:
\* "ok" (entities found), "none" (no entities), "fail" (it raises)
EntitiesOf(p) ==
    CASE p \in {"solo", "lone", "tiny", "trio", "wide", "huge"} -> "ok"
      [] p \in {"blank", "mid"} -> "none"
      [] OTHER -> "fail"

\* ------------------------------------------------------ the Index Store

SegLen(s) == s.hi - s.lo + 1

RECURSIVE Count(_)
\* number of records (or ids) in a segment list
Count(segs) == IF segs = <<>> THEN 0 ELSE SegLen(Head(segs)) + Count(Tail(segs))

RECURSIVE Take(_, _)
\* the first n elements of a segment list
Take(segs, n) ==
    IF n <= 0 \/ segs = <<>> THEN <<>>
    ELSE LET h == Head(segs) IN
         IF SegLen(h) <= n THEN <<h>> \o Take(Tail(segs), n - SegLen(h))
         ELSE <<[h EXCEPT !.hi = h.lo + n - 1]>>

RECURSIVE Drop(_, _)
\* a segment list without its first n elements
Drop(segs, n) ==
    IF segs = <<>> THEN <<>>
    ELSE IF n <= 0 THEN segs
    ELSE LET h == Head(segs) IN
         IF SegLen(h) <= n THEN Drop(Tail(segs), n - SegLen(h))
         ELSE <<[h EXCEPT !.lo = h.lo + n]>> \o Tail(segs)

\* Python's list[i : j] for 0 <= i <= j (j is clipped to the length)
Slice(segs, i, j) == Take(Drop(segs, i), j - i)

\* vector_store.get()['ids']: the ids of all records, in store order
StoreIds(st) ==
    [k \in 1..Len(st) |-> [gen |-> st[k].gen, lo |-> st[k].lo, hi |-> st[k].hi]]

\* what is left of store segment seg once the ids of d are deleted
SegMinus(seg, d) ==
    IF d.gen # seg.gen \/ d.hi < seg.lo \/ d.lo > seg.hi THEN <<seg>>
    ELSE (IF seg.lo < d.lo THEN <<[seg EXCEPT !.hi = d.lo - 1]>> ELSE <<>>)
         \o (IF d.hi < seg.hi THEN <<[seg EXCEPT !.lo = d.hi + 1]>> ELSE <<>>)

RECURSIVE MinusIds(_, _)
MinusIds(st, d) ==
    IF st = <<>> THEN <<>> ELSE SegMinus(Head(st), d) \o MinusIds(Tail(st), d)

RECURSIVE StoreDelete(_, _)
\* vector_store.delete(batch_ids): every record with one of the ids is removed
StoreDelete(st, ids) ==
    IF ids = <<>> THEN st ELSE StoreDelete(MinusIds(st, Head(ids)), Tail(ids))

\* vector_store.add_documents(batch): the chunks lo..hi of the run's chunk
\* list are appended as new records, each under a fresh id
StoreAdd(st, g, repo, lo, hi) ==
    IF st # <<>> /\ st[Len(st)].gen = g /\ st[Len(st)].repo = repo
                 /\ st[Len(st)].hi + 1 = lo
    THEN [st EXCEPT ![Len(st)].hi = hi]
    ELSE Append(st, [gen |-> g, repo |-> repo, lo |-> lo, hi |-> hi])


\* ------------------------------------------------------------ the state

VARIABLES
    store,          \* the Index Store's records (segments, in get() order)
    gen,            \* number of ingestion triggers so far; names a run's records
    faults,         \* store calls that failed so far
    httpStatus,     \* status of the /ingest response (0: not an HTTP call)
    ingPc,          \* where ingest_repository_stream stands
    repo_path,      \* its argument
    raw_documents,  \* len(raw_documents)
    chunks,         \* len(chunks); the chunks are 1..chunks of repo_path
    enriched,       \* whether add_entities_to_metadata replaced the chunks
    ids_to_delete,  \* the ids fetched by vector_store.get()
    delI,           \* loop variable i of the delete loop
    addI,           \* loop variable i of the insert loop
    calls,          \* the store calls of the current run, in order
    out,            \* the progress messages yielded by the current run
    prior,          \* history: the store when the current run was triggered
    prevRun         \* history: how the run before the current one ended

ingVars == <<store, gen, faults, httpStatus, ingPc, repo_path, raw_documents,
             chunks, enriched, ids_to_delete, delI, addI, calls, out,
             prior, prevRun>>

Msg(m, f, c) == [msg |-> m, files |-> f, chunks |-> c]
Call(op, arg, ok) == [op |-> op, arg |-> arg, ok |-> ok]

\* ------------------------------------------------------ POST /ingest

\* Python's exception matching: "except Exception" catches every exception
\* class of the program, HTTPException included
Catches(handler, cls) == handler = "Exception" \/ handler = cls

\* endpoints.py ingest_endpoint: the response the client gets
ingest_endpoint(p) ==
    LET body == IF ~PathExists(p)
                THEN [raised |-> TRUE, cls |-> "HTTPException", status |-> 404]
                ELSE [raised |-> FALSE, cls |-> "", status |-> 200]
    IN  IF body.raised /\ Catches("Exception", body.cls)
        THEN [status |-> 500, stream |-> FALSE]
        ELSE [status |-> body.status, stream |-> ~body.raised]

RunIdle == ingPc \in {"idle", "done", "raised"}

ResetRun(p) ==
    /\ repo_path' = p
    /\ raw_documents' = 0
    /\ chunks' = 0
    /\ enriched' = FALSE
    /\ ids_to_delete' = <<>>
    /\ delI' = 0
    /\ addI' = 0
    /\ calls' = <<>>
    /\ out' = <<>>
    /\ prior' = store
    /\ prevRun' = [path |-> repo_path, pc |-> ingPc,
                   clean |-> \A k \in 1..Len(calls) : calls[k].ok]

\* a client posts {repo_path: p} to /ingest
IngestEndpoint(p) ==
    /\ RunIdle
    /\ gen' = gen + 1
    /\ httpStatus' = ingest_endpoint(p).status
    /\ ingPc' = IF ingest_endpoint(p).stream THEN "start" ELSE "idle"
    /\ ResetRun(p)
    /\ UNCHANGED <<store, faults>>

\* ingest_repository_stream(p) is called without the endpoint's check
CallStream(p) ==
    /\ RunIdle
    /\ gen' = gen + 1
    /\ httpStatus' = 0
    /\ ingPc' = "start"
    /\ ResetRun(p)
    /\ UNCHANGED <<store, faults>>

\* ------------------------------------------ ingest_repository_stream

\* lines 123-140: the path check
IngStart ==
    /\ ingPc = "start"
    /\ IF ~PathExists(repo_path)
       THEN /\ out' = out \o <<Msg("starting", 0, 0), Msg("path_not_found", 0, 0)>>
            /\ ingPc' = "done"
       ELSE /\ out' = out \o <<Msg("starting", 0, 0), Msg("repository", 0, 0),
                               Msg("step1", 0, 0)>>
            /\ ingPc' = "load"
    /\ UNCHANGED <<store, gen, faults, httpStatus, repo_path, raw_documents,
                   chunks, enriched, ids_to_delete, delI, addI, calls,
                   prior, prevRun>>

\* (mutant) a walk that loads nothing goes on to the storing step
OnNoDocumentsContinue == "get"

\* lines 143-147: a walk that loads nothing ends the run
OnNoDocuments == "done"

\* lines 142-176: load_documents, then the splitters
IngLoad ==
    /\ ingPc = "load"
    /\ raw_documents' = FilesOf(repo_path)
    /\ IF FilesOf(repo_path) = 0
       THEN /\ out' = Append(out, Msg("no_valid_documents", 0, 0))
            /\ chunks' = chunks
            /\ ingPc' = OnNoDocuments
       ELSE /\ chunks' = ChunksOf(repo_path)
            /\ out' = out \o <<Msg("loaded", FilesOf(repo_path), 0),
                               Msg("step2", 0, 0),
                               Msg("total_chunks", 0, ChunksOf(repo_path))>>
            /\ ingPc' = "enrich"
    /\ UNCHANGED <<store, gen, faults, httpStatus, repo_path, enriched,
                   ids_to_delete, delI, addI, calls, prior, prevRun>>

\* (mutant) a failure of the code-intelligence step leaves the generator
OnEnrichErrorRaise == "raised"

\* lines 188-190: the handler of the code-intelligence block reports the
\* failure and falls through to the storing step
OnEnrichError == "get"

\* lines 178-196: the best-effort code-intelligence step
IngEnrich ==
    /\ ingPc = "enrich"
    /\ enriched' = (EntitiesOf(repo_path) = "ok")
    /\ out' = out \o
              (CASE EntitiesOf(repo_path) = "ok" ->
                      <<Msg("ci_start", 0, 0), Msg("ci_ok", 0, 0)>>
                 [] EntitiesOf(repo_path) = "none" -> <<Msg("ci_start", 0, 0)>>
                 [] OTHER -> <<Msg("ci_start", 0, 0), Msg("ci_skipped", 0, 0)>>)
              \o <<Msg("step3", 0, 0)>>
    /\ ingPc' = (IF EntitiesOf(repo_path) = "fail" THEN OnEnrichError ELSE "get")
    /\ UNCHANGED <<store, gen, faults, httpStatus, repo_path, raw_documents,
                   chunks, ids_to_delete, delI, addI, calls, prior, prevRun>>

\* the outcomes a store call may have: it may fail while the fault budget lasts
Outcomes(F) == {ok \in F : ok \/ faults < MaxFaults}

\* where the run goes once the clean-up is over (line 219: "if chunks:")
AfterCleanup == IF chunks > 0 THEN "add" ELSE "complete"

\* (mutant) the clean-up handler lets the failure out of the generator
OnCleanupErrorRaise == "raised"

\* lines 213-214: the handler of the clean-up block logs the failure and
\* falls through to the insert block
OnCleanupError == AfterCleanup

\* (mutant) the loop bound taken inclusive: range(0, len + 1, limit)
AfterDeleteOffByOne(i) ==
    IF i + BATCH_DELETE_LIMIT <= Count(ids_to_delete) THEN "delete" ELSE AfterCleanup

\* line 207: the delete loop goes on while i + BATCH_DELETE_LIMIT < len(ids)
AfterDelete(i) ==
    IF i + BATCH_DELETE_LIMIT < Count(ids_to_delete) THEN "delete" ELSE AfterCleanup

\* (mutant) the clean-up sits inside the insert loop: delete, insert, delete
AfterAddReclean(i) ==
    IF i + BATCH_SIZE < chunks
    THEN (IF ids_to_delete # <<>> THEN "delete" ELSE "add")
    ELSE "complete"

\* (mutant) the loop bound taken inclusive: one more pass when the batch
\* size divides the number of chunks
AfterAddInclusive(i) == IF i + BATCH_SIZE <= chunks THEN "add" ELSE "complete"

\* line 222: the insert loop goes on while i + BATCH_SIZE < total_chunks
AfterAdd(i) == IF i + BATCH_SIZE < chunks THEN "add" ELSE "complete"

\* (mutant) the insert handler logs the failure and does not re-raise
OnInsertErrorSwallow == "complete"

\* lines 230-232: the handler of the insert block logs and re-raises
OnInsertError == "raised"

\* lines 200-204 and 213-214: vector_store.get()
IngGet(F) ==
    /\ ingPc = "get"
    /\ \E ok \in Outcomes(F) :
         /\ calls' = Append(calls, Call("get", <<>>, ok))
         /\ IF ok
            THEN /\ ids_to_delete' = StoreIds(store)
                 /\ ingPc' = IF store # <<>> THEN "delete" ELSE AfterCleanup
                 /\ faults' = faults
            ELSE /\ ids_to_delete' = ids_to_delete
                 /\ ingPc' = OnCleanupError
                 /\ faults' = faults + 1
    /\ delI' = 0
    /\ UNCHANGED <<store, gen, httpStatus, repo_path, raw_documents, chunks,
                   enriched, addI, out, prior, prevRun>>

\* lines 207-209: one pass of the delete loop
IngDelete(F) ==
    /\ ingPc = "delete"
    /\ LET batch_ids == Slice(ids_to_delete, delI, delI + BATCH_DELETE_LIMIT) IN
       \E ok \in Outcomes(F) :
         /\ calls' = Append(calls, Call("delete", batch_ids, ok))
         /\ IF ok
            THEN /\ store' = StoreDelete(store, batch_ids)
                 /\ delI' = delI + BATCH_DELETE_LIMIT
                 /\ ingPc' = AfterDelete(delI)
                 /\ faults' = faults
            ELSE /\ store' = store
                 /\ delI' = delI
                 /\ ingPc' = OnCleanupError
                 /\ faults' = faults + 1
    /\ UNCHANGED <<gen, httpStatus, repo_path, raw_documents, chunks, enriched,
                   ids_to_delete, addI, out, prior, prevRun>>

\* lines 222-226 and 230-232: one pass of the insert loop
IngAdd(F) ==
    /\ ingPc = "add"
    /\ LET lo == addI + 1
           hi == Min(addI + BATCH_SIZE, chunks) IN
       \E ok \in Outcomes(F) :
         /\ calls' = Append(calls,
                Call("add", <<[gen |-> gen, lo |-> lo, hi |-> hi]>>, ok))
         /\ IF ok
            THEN /\ store' = StoreAdd(store, gen, repo_path, lo, hi)
                 /\ addI' = addI + BATCH_SIZE
                 /\ ingPc' = AfterAdd(addI)
                 /\ faults' = faults
            ELSE /\ store' = store
                 /\ addI' = addI
                 /\ ingPc' = OnInsertError
                 /\ faults' = faults + 1
    /\ UNCHANGED <<gen, httpStatus, repo_path, raw_documents, chunks, enriched,
                   ids_to_delete, delI, out, prior, prevRun>>

\* lines 234-236: the final summary
IngComplete ==
    /\ ingPc = "complete"
    /\ out' = Append(out, Msg("complete", raw_documents, chunks))
    /\ ingPc' = "done"
    /\ UNCHANGED <<store, gen, faults, httpStatus, repo_path, raw_documents,
                   chunks, enriched, ids_to_delete, delI, addI, calls,
                   prior, prevRun>>

\* the store a completed run over repository p leaves (as run number g)
Ingested(g, p) ==
    IF ChunksOf(p) = 0 THEN <<>>
    ELSE <<[gen |-> g, repo |-> p, lo |-> 1, hi |-> ChunksOf(p)]>>

InitIngest(P) ==
    /\ store \in {Ingested(0, p) : p \in P}
    /\ gen = 0
    /\ faults = 0
    /\ httpStatus = 0
    /\ ingPc = "idle"
    /\ repo_path = ""
    /\ raw_documents = 0
    /\ chunks = 0
    /\ enriched = FALSE
    /\ ids_to_delete = <<>>
    /\ delI = 0
    /\ addI = 0
    /\ calls = <<>>
    /\ out = <<>>
    /\ prior = store
    /\ prevRun = [path |-> "", pc |-> "idle", clean |-> TRUE]

\* the steps of a run; F: the outcomes the store's calls may have
IngStep(F) ==
    \/ IngStart
    \/ IngLoad
    \/ IngEnrich
    \/ IngGet(F)
    \/ IngDelete(F)
    \/ IngAdd(F)
    \/ IngComplete


\* ------------------------------------------------------- hybrid search
\* hybrid_search.py.  Scores are exact rationals <<numerator, denominator>>
\* (denominator > 0) where the code computes in floating point.

MaxQueries == 2
MaxK == 2

\* the distances the vector search may report, and the raw scores
\* BM25Okapi.get_scores may report for a corpus position
Distances == {<<1, 9>>, <<1, 1>>, <<4, 1>>}
RawScores == {0, 1, 2}

\* hybrid_search.py:146-147
semantic_weight == <<7, 10>>
bm25_weight == <<3, 10>>

RatMul(a, b) == <<a[1] * b[1], a[2] * b[2]>>
RatAdd(a, b) == <<a[1] * b[2] + b[1] * a[2], a[2] * b[2]>>
RatLess(a, b) == a[1] * b[2] < b[1] * a[2]
RatEq(a, b) == a[1] * b[2] = b[1] * a[2]
Zero == <<0, 1>>

\* line 97: similarity = 1 / (1 + distance)
Similarity(distance) == <<distance[2], distance[1] + distance[2]>>

VARIABLES
    bm25_index,        \* self.bm25_index: whether built, and over how many documents
    documents,         \* self.documents
    nQueries,          \* number of search calls so far
    qPc,               \* where HybridSearcher.search stands
    k,                 \* its argument k
    all_documents,     \* its local all_documents
    semantic_results,  \* its local semantic_results
    bm25_results,      \* its local bm25_results
    ranked_results     \* its local ranked_results

searchVars == <<bm25_index, documents, nQueries, qPc, k, all_documents,
                semantic_results, bm25_results, ranked_results>>

RECURSIVE Records(_)
\* the records of a store, one by one, in get() order
Records(st) ==
    IF st = <<>> THEN <<>>
    ELSE LET h == Head(st) IN
         [i \in 1..SegLen(h) |-> [gen |-> h.gen, repo |-> h.repo, idx |-> h.lo + i - 1]]
         \o Records(Tail(st))

\* a langchain Document built from a store record: rec is the record it was
\* built from, text its page_content and metadata, obj the identity of the
\* Python object (what id(doc) tells apart): the call and the list it was
\* created for, and its position there
Document(r, from, call, pos) ==
    [rec |-> <<r.gen, r.idx>>, text |-> <<r.repo, r.idx>>, obj |-> <<from, call, pos>>]

\* line 98: id(doc)
id(doc) == doc.obj

None == [built |-> FALSE, size |-> 0]

First(seq, n) == SubSeq(seq, 1, Min(n, Len(seq)))

RECURSIVE Insert(_, _)
Insert(sorted, x) ==
    IF sorted = <<>> THEN <<x>>
    ELSE IF RatLess(Head(sorted).score, x.score) THEN <<x>> \o sorted
    ELSE <<Head(sorted)>> \o Insert(Tail(sorted), x)

RECURSIVE SortedDesc(_)
\* sorted(..., key=score, reverse=True): stable, equal scores keep their order
SortedDesc(seq) ==
    IF seq = <<>> THEN <<>>
    ELSE Insert(SortedDesc(SubSeq(seq, 1, Len(seq) - 1)), seq[Len(seq)])

\* vector_store.similarity_search_with_score(query, k=n): the n records
\* nearest to the query, nearest first, each as a new Document with its
\* distance; dist gives the distance of every record of the store
SimilaritySearch(st, dist, n, call) ==
    LET recs == Records(st)
        byDistance == SortedDesc([i \in 1..Len(recs) |->
                         [r |-> recs[i], distance |-> dist[i],
                          score |-> Similarity(dist[i])]])
        top == First(byDistance, n)
    IN  [j \in 1..Len(top) |->
            [doc |-> Document(top[j].r, "search", call, j),
             distance |-> top[j].distance]]

\* line 80: max(bm25_scores) if max(bm25_scores) > 0 else 1
MaxScore(scores) ==
    LET m == CHOOSE x \in {scores[i] : i \in 1..Len(scores)} :
                 \A i \in 1..Len(scores) : scores[i] <= x
    IN  IF m > 0 THEN m ELSE 1

\* lines 80-89: the normalised scores of self.documents, best first, cut to n
Bm25Results(docs, scores, n) ==
    LET normalized == [i \in 1..Len(scores) |-> <<scores[i], MaxScore(scores)>>]
    IN  First(SortedDesc([i \in 1..Len(docs) |->
                             [doc |-> docs[i], score |-> normalized[i]]]), n)

Has(combined, key) == \E i \in 1..Len(combined) : combined[i].key = key
IndexOf(combined, key) == CHOOSE i \in 1..Len(combined) : combined[i].key = key

\* combined_scores[key] = entry (a dict keeps the place of a key it has)
Put(combined, entry) ==
    IF Has(combined, entry.key)
    THEN [combined EXCEPT ![IndexOf(combined, entry.key)] = entry]
    ELSE Append(combined, entry)

RECURSIVE AddSemantic(_, _)
\* lines 95-104, over the first results of the vector search
AddSemantic(combined, results) ==
    IF results = <<>> THEN combined
    ELSE LET doc == Head(results).doc
             similarity == Similarity(Head(results).distance) IN
         AddSemantic(Put(combined,
                         [key |-> id(doc), doc |-> doc,
                          score |-> RatMul(similarity, semantic_weight),
                          semantic |-> similarity, bm25 |-> Zero]),
                     Tail(results))

RECURSIVE AddBm25(_, _)
\* lines 107-118
AddBm25(combined, results) ==
    IF results = <<>> THEN combined
    ELSE LET doc == Head(results).doc
             bm25_score == Head(results).score IN
         AddBm25(IF Has(combined, id(doc))
                 THEN LET i == IndexOf(combined, id(doc)) IN
                      [combined EXCEPT
                         ![i].score = RatAdd(@, RatMul(bm25_score, bm25_weight)),
                         ![i].bm25 = bm25_score]
                 ELSE Append(combined,
                         [key |-> id(doc), doc |-> doc,
                          score |-> RatMul(bm25_score, bm25_weight),
                          semantic |-> Zero, bm25 |-> bm25_score]),
                 Tail(results))

\* (mutant) the candidates are left in the order they were entered
FuseUnsorted(semantic, bm25) == AddBm25(AddSemantic(<<>>, semantic), bm25)

\* lines 92-125: the candidates, best fused score first
Fuse(semantic, bm25) == SortedDesc(AddBm25(AddSemantic(<<>>, semantic), bm25))

\* line 135: ranked_results[:k]
TopK(ranked, n) == First(ranked, n)

QueryIdle == qPc = "idle"

ClearQuery ==
    /\ all_documents' = <<>>
    /\ semantic_results' = <<>>
    /\ bm25_results' = <<>>
    /\ ranked_results' = <<>>

\* (mutant) an index that exists is never rebuilt
NeedsIndexOnce(index, docs, fetched) == ~index.built

\* line 68: self.bm25_index is None or len(self.documents) != len(all_documents)
NeedsIndex(index, docs, fetched) == ~index.built \/ Len(docs) # Len(fetched)

\* lines 49-70: search is called; it fetches the corpus and indexes it when
\* there is no index yet or the number of documents changed.  The store's
\* get() always has its 'documents' key, so line 52 does not return.
\* index_documents (lines 32-35) sets self.documents and then builds
\* BM25Okapi, which divides by the corpus size: it raises on an empty corpus
\* and leaves self.bm25_index as it was.
QueryFetch(n) ==
    /\ QueryIdle
    /\ nQueries' = nQueries + 1
    /\ k' = n
    /\ LET recs == Records(store)
           fetched == [i \in 1..Len(recs) |->
                          Document(recs[i], "get", nQueries + 1, i)]
       IN  /\ all_documents' = fetched
           /\ IF NeedsIndex(bm25_index, documents, fetched)
              THEN /\ documents' = fetched
                   /\ IF fetched = <<>>
                      THEN /\ bm25_index' = bm25_index
                           /\ qPc' = "raised"
                      ELSE /\ bm25_index' = [built |-> TRUE, size |-> Len(fetched)]
                           /\ qPc' = "fetched"
              ELSE /\ UNCHANGED <<documents, bm25_index>>
                   /\ qPc' = "fetched"
    /\ semantic_results' = <<>>
    /\ bm25_results' = <<>>
    /\ ranked_results' = <<>>

\* lines 72-135: the vector search, the lexical scores, the fusion, the cut
QueryRank(F) ==
    /\ qPc = "fetched"
    /\ \E ok \in Outcomes(F) :
         IF ok
         THEN \E dist \in [1..Count(store) -> Distances] :
              \E bm25_scores \in [1..bm25_index.size -> RawScores] :
                LET sem == SimilaritySearch(store, dist, k * 2, nQueries)
                    lex == Bm25Results(documents, bm25_scores, k * 2)
                IN  /\ semantic_results' = sem
                    /\ bm25_results' = lex
                    /\ ranked_results' = Fuse(sem, lex)
                    /\ qPc' = "returned"
         ELSE /\ qPc' = "raised"
              /\ UNCHANGED <<semantic_results, bm25_results, ranked_results>>
    /\ UNCHANGED <<bm25_index, documents, nQueries, k, all_documents>>

\* the call is over (it returned its list, or raised): its locals are gone
QueryReturn ==
    /\ qPc \in {"returned", "raised"}
    /\ qPc' = "idle"
    /\ ClearQuery
    /\ UNCHANGED <<bm25_index, documents, nQueries, k>>

\* what search returned (line 135)
Returned == [i \in 1..Len(TopK(ranked_results, k)) |-> TopK(ranked_results, k)[i].doc]

InitSearch ==
    /\ bm25_index = None
    /\ documents = <<>>
    /\ nQueries = 0
    /\ qPc = "idle"
    /\ k = 0
    /\ all_documents = <<>>
    /\ semantic_results = <<>>
    /\ bm25_results = <<>>
    /\ ranked_results = <<>>

\* ------------------------------------------- loading, chunking, entities
\* ingestion.py:15-23
SUPPORTED_EXTENSIONS ==
    {".py", ".js", ".ts", ".tsx", ".jsx", ".md", ".txt", ".java", ".go",
     ".cpp", ".c", ".h", ".cs", ".php", ".rb", ".rs", ".swift", ".kt"}
IGNORED_DIRS ==
    {".git", "node_modules", "__pycache__", "venv", "env", ".idea", ".vscode",
     "dist", "build", "coverage"}

\* code_intelligence.py:222: the extensions extract_code_entities parses
PARSED_EXTENSIONS == {".py", ".js", ".jsx", ".ts", ".tsx"}

\* os.path.splitext(name)[1] on the file names of the trees below
Splitext(name) ==
    CASE name \in {"main.py", "gen.py", "util.py", "bad.py", "empty.py", "locked.py"}
              -> ".py"
      [] name = "README.md" -> ".md"
      [] name = "notes.log" -> ".log"
      [] name = "index.ts"  -> ".ts"
      [] OTHER -> ""

\* lines 29-31
is_valid_file(file_path) == Splitext(file_path[Len(file_path)]) \in SUPPORTED_EXTENSIONS

\* lines 33-55
detect_language(extension) ==
    CASE extension = ".py" -> "python"
      [] extension \in {".js", ".jsx"} -> "javascript"
      [] extension \in {".ts", ".tsx"} -> "typescript"
      [] extension = ".md" -> "markdown"
      [] extension = ".txt" -> "text"
      [] extension = ".java" -> "java"
      [] extension = ".go" -> "go"
      [] extension = ".cpp" -> "cpp"
      [] extension \in {".c", ".h"} -> "c"
      [] extension = ".cs" -> "csharp"
      [] extension = ".php" -> "php"
      [] extension = ".rb" -> "ruby"
      [] extension = ".rs" -> "rust"
      [] extension = ".swift" -> "swift"
      [] extension = ".kt" -> "kotlin"
      [] OTHER -> "unknown"

\* A file of a directory tree: the directories from the repository root down
\* to it, its name, whether TextLoader can load it, what the parser makes of
\* its text ("defs": the definitions listed, "fail": parsing raises) and the
\* number of chunks the splitter cuts it into.
File(dir, name, readable, parse, defs, pieces) ==
    [dir |-> dir, name |-> name, readable |-> readable, parse |-> parse,
     defs |-> defs, pieces |-> pieces]

Def(type, name, start, end) ==
    [entity_type |-> type, name |-> name, start_line |-> start, end_line |-> end]

\* the files a tree may hold, in the order os.walk lists them when none is
\* pruned: a directory's own files, then its subdirectories one by one
PoolFiles ==
    << File(<<>>, "main.py", TRUE, "defs",
            <<Def("function", "run", 1, 4), Def("class", "App", 6, 30)>>, 2),
       File(<<>>, "README.md", TRUE, "defs", <<>>, 1),
       File(<<>>, "notes.log", TRUE, "defs", <<>>, 1),
       File(<<"build">>, "gen.py", TRUE, "defs", <<Def("function", "gen", 1, 2)>>, 1),
       File(<<"src">>, "locked.py", FALSE, "defs", <<>>, 0),
       File(<<"src">>, "bad.py", TRUE, "fail", <<>>, 1),
       File(<<"src">>, "util.py", TRUE, "defs", <<Def("function", "helper", 3, 9)>>, 2),
       File(<<"src">>, "empty.py", TRUE, "defs", <<>>, 1),
       File(<<"src", "node_modules", "pkg">>, "index.ts", TRUE, "defs",
            <<Def("class", "Pkg", 1, 5)>>, 1) >>

\* the elements of seq at the positions in S, in order
Sub(seq, S) ==
    LET F[i \in 0..Len(seq)] ==
          IF i = 0 THEN <<>>
          ELSE IF i \in S THEN Append(F[i - 1], seq[i]) ELSE F[i - 1]
    IN  F[Len(seq)]

Trees == {Sub(PoolFiles, S) : S \in SUBSET (1..Len(PoolFiles))}

\* the repository roots ingestion is pointed at
Roots == {<<"home", "repo">>, <<"work", "build", "app">>}

IsPrefix(p, q) == Len(p) <= Len(q) /\ SubSeq(q, 1, Len(p)) = p

\* the names os.walk lists as subdirectories of directory d
Subdirs(files, d) ==
    LET F[i \in 0..Len(files)] ==
          IF i = 0 THEN <<>>
          ELSE LET fd == files[i].dir IN
               IF IsPrefix(d, fd) /\ Len(fd) > Len(d)
                    /\ \A j \in 1..Len(F[i - 1]) : F[i - 1][j] # fd[Len(d) + 1]
               THEN Append(F[i - 1], fd[Len(d) + 1])
               ELSE F[i - 1]
    IN  F[Len(files)]

\* (mutant) no directory is pruned
IgnoredNone(d) == FALSE

\* line 94: d not in IGNORED_DIRS decides whether the walk descends into d
Ignored(d) == d \in IGNORED_DIRS

RECURSIVE Walk(_, _)
\* lines 92-96: the files os.walk visits from directory d on, the ignored
\* subdirectories pruned from dirs before the walk descends
Walk(files, d) ==
    LET own == SelectSeq(files, LAMBDA f : f.dir = d)
        dirs == SelectSeq(Subdirs(files, d), LAMBDA s : ~Ignored(s))
        Below[i \in 0..Len(dirs)] ==
          IF i = 0 THEN <<>>
          ELSE Below[i - 1] \o Walk(files, Append(d, dirs[i]))
    IN  own \o Below[Len(dirs)]

\* os.path.relpath(file_path, repo_path) for a path below repo_path
Relpath(file_path, repo) == SubSeq(file_path, Len(repo) + 1, Len(file_path))

\* lines 97-111: the Document TextLoader gives for a file, with its metadata
Loaded(repo, f) ==
    LET file_path == repo \o f.dir \o <<f.name>>
        ext == Splitext(f.name)
    IN  [page_content |-> [parse |-> f.parse, defs |-> f.defs, pieces |-> f.pieces],
         source |-> file_path,
         filename |-> f.name,
         extension |-> ext,
         language |-> detect_language(ext),
         relative_path |-> Relpath(file_path, repo)]

\* (mutant) a file that fails to load ends the walk
AfterLoadErrorStop(rest) == <<>>

\* lines 114-116: the handler logs the failure and continues with the next file
AfterLoadError(rest) == rest

RECURSIVE LoadVisited(_, _)
\* lines 96-116 over the files the walk visits
LoadVisited(repo, files) ==
    IF files = <<>> THEN <<>>
    ELSE LET f == Head(files) IN
         IF is_valid_file(repo \o f.dir \o <<f.name>>)
         THEN IF f.readable
              THEN <<Loaded(repo, f)>> \o LoadVisited(repo, Tail(files))
              ELSE LoadVisited(repo, AfterLoadError(Tail(files)))
         ELSE LoadVisited(repo, Tail(files))

\* lines 90-117
load_documents(repo, files) == LoadVisited(repo, Walk(files, <<>>))

\* the metadata of a chunk that carries no entity keys
NoEntityMetadata ==
    [present |-> FALSE, code_entities |-> <<>>, entity_count |-> 0,
     has_code_intelligence |-> FALSE]

\* splitter.split_documents(<<doc>>): the pieces of the document's text, each
\* with a copy of the document's metadata
SplitDocument(doc) ==
    [i \in 1..doc.page_content.pieces |->
        [text |-> <<doc.source, i>>,
         source |-> doc.source,
         filename |-> doc.filename,
         extension |-> doc.extension,
         language |-> doc.language,
         relative_path |-> doc.relative_path,
         entities |-> NoEntityMetadata]]

\* lines 160-163: the extensions of the documents, in order of first occurrence
Extensions(docs) ==
    LET F[i \in 0..Len(docs)] ==
          IF i = 0 THEN <<>>
          ELSE IF \E j \in 1..Len(F[i - 1]) : F[i - 1][j] = docs[i].extension
               THEN F[i - 1]
               ELSE Append(F[i - 1], docs[i].extension)
    IN  F[Len(docs)]

\* lines 157-172: the documents grouped by extension, each group split in turn
SplitDocuments(docs) ==
    LET exts == Extensions(docs)
        Group(e) == SelectSeq(docs, LAMBDA d : d.extension = e)
        OfGroup(g) ==
          LET G[i \in 0..Len(g)] ==
                IF i = 0 THEN <<>> ELSE G[i - 1] \o SplitDocument(g[i])
          IN  G[Len(g)]
        F[i \in 0..Len(exts)] ==
          IF i = 0 THEN <<>> ELSE F[i - 1] \o OfGroup(Group(exts[i]))
    IN  F[Len(exts)]

\* code_intelligence.py:20-28: the entities the parser finds in a text
CodeEntities(page_content, file_path) ==
    [i \in 1..Len(page_content.defs) |->
        [entity_type |-> page_content.defs[i].entity_type,
         name |-> page_content.defs[i].name,
         start_line |-> page_content.defs[i].start_line,
         end_line |-> page_content.defs[i].end_line,
         file_path |-> file_path]]

\* (mutant) parse_file lets the failure out
OnParseErrorRaise == [raised |-> TRUE, entities |-> <<>>]

\* lines 185-187: parse_file logs the failure and returns no entity
OnParseError == [raised |-> FALSE, entities |-> <<>>]

\* lines 163-187
parse_file(source_code, file_path, extension) ==
    IF source_code.parse = "fail" THEN OnParseError
    ELSE IF extension = ".py" \/ extension \in {".js", ".jsx", ".ts", ".tsx"}
         THEN [raised |-> FALSE, entities |-> CodeEntities(source_code, file_path)]
         ELSE [raised |-> FALSE, entities |-> <<>>]

RECURSIVE ExtractInto(_, _)
\* lines 217-234: the loop over the documents; by is the dict so far, as its
\* items in insertion order
ExtractInto(by, docs) ==
    IF docs = <<>> THEN [raised |-> FALSE, map |-> by]
    ELSE LET doc == Head(docs) IN
         IF doc.extension \notin PARSED_EXTENSIONS
         THEN ExtractInto(by, Tail(docs))
         ELSE LET r == parse_file(doc.page_content, doc.source, doc.extension) IN
              IF r.raised THEN [raised |-> TRUE, map |-> by]
              ELSE IF r.entities # <<>>
                   THEN ExtractInto(Put(by, [key |-> doc.source,
                                             entities |-> r.entities]),
                                    Tail(docs))
                   ELSE ExtractInto(by, Tail(docs))

\* lines 201-239
extract_code_entities(docs) == ExtractInto(<<>>, docs)

\* lines 30-38
to_dict(e) ==
    [type |-> e.entity_type, name |-> e.name, start_line |-> e.start_line,
     end_line |-> e.end_line, file_path |-> e.file_path]

\* line 262: json.dumps([e.to_dict() for e in entities])
Serialized(entities) == [i \in 1..Len(entities) |-> to_dict(entities[i])]

\* (mutant) only the first chunk of a file gets the entities
AttachesFirst(chunk, by) == Has(by, chunk.source) /\ chunk.text[2] = 1

\* line 256: file_path in entities_by_file
Attaches(chunk, by) == Has(by, chunk.source)

\* lines 242-266
add_entities_to_metadata(chs, by) ==
    [i \in 1..Len(chs) |->
        IF Attaches(chs[i], by)
        THEN LET entities == by[IndexOf(by, chs[i].source)].entities IN
             [chs[i] EXCEPT !.entities =
                 [present |-> TRUE,
                  code_entities |-> Serialized(entities),
                  entity_count |-> Len(entities),
                  has_code_intelligence |-> TRUE]]
        ELSE chs[i]]

VARIABLES
    repo,              \* the repository root the pipeline runs on
    tree,              \* the files below it
    fpc,               \* where the pipeline stands
    file_documents,    \* what load_documents returned
    file_chunks,       \* the chunks the splitters made
    entities_by_file,  \* what extract_code_entities returned
    enriched_chunks    \* the chunks after add_entities_to_metadata

fileVars == <<repo, tree, fpc, file_documents, file_chunks, entities_by_file,
              enriched_chunks>>

\* ingestion.py:142-147
FileLoad ==
    /\ fpc = "load"
    /\ file_documents' = load_documents(repo, tree)
    /\ fpc' = (IF load_documents(repo, tree) = <<>> THEN "end" ELSE "split")
    /\ UNCHANGED <<repo, tree, file_chunks, entities_by_file, enriched_chunks>>

\* ingestion.py:157-176
FileSplit ==
    /\ fpc = "split"
    /\ file_chunks' = SplitDocuments(file_documents)
    /\ enriched_chunks' = SplitDocuments(file_documents)
    /\ fpc' = "extract"
    /\ UNCHANGED <<repo, tree, file_documents, entities_by_file>>

\* ingestion.py:184-190
FileExtract ==
    /\ fpc = "extract"
    /\ LET r == extract_code_entities(file_documents) IN
         IF r.raised
         THEN /\ fpc' = "skipped"
              /\ UNCHANGED entities_by_file
         ELSE /\ entities_by_file' = r.map
              /\ fpc' = (IF r.map # <<>> THEN "enrich" ELSE "end")
    /\ UNCHANGED <<repo, tree, file_documents, file_chunks, enriched_chunks>>

\* ingestion.py:185-187
FileEnrich ==
    /\ fpc = "enrich"
    /\ enriched_chunks' = add_entities_to_metadata(file_chunks, entities_by_file)
    /\ fpc' = "end"
    /\ UNCHANGED <<repo, tree, file_documents, file_chunks, entities_by_file>>

InitFiles(R, T) ==
    /\ repo \in R
    /\ tree \in T
    /\ fpc = "load"
    /\ file_documents = <<>>
    /\ file_chunks = <<>>
    /\ entities_by_file = <<>>
    /\ enriched_chunks = <<>>

\* ------------------------------------------------------ the chat pipeline
MaxChats == 1
MaxFragments == 2
\* rag.py:89, 94: the k of both retrieval calls
CHAT_K == 8

Queries == {"how is the index built", "where is auth"}

\* the file a stored chunk was cut from: the splitters cut a file into
\* consecutive chunks ("trio": chunks 1, 2 of its first file, 3 of its second)
FileOfChunk(text) ==
    IF text[1] = "trio" /\ text[2] = 3 THEN <<text[1], 2>> ELSE <<text[1], 1>>

\* rag.py:112-114: what the listing reads from doc.metadata
SourceInfo(doc) ==
    [path |-> FileOfChunk(doc.text),
     filename |-> FileOfChunk(doc.text)[2],
     language |-> IF FileOfChunk(doc.text)[2] = 1 THEN "python" ELSE "markdown"]

VARIABLES
    chatPc,     \* where chat_stream stands
    nChats,     \* number of chat streams so far
    query,      \* its argument
    docs,       \* its local docs
    chat_out,   \* what the stream yielded so far
    chat_calls  \* the retrieval and generation calls it made

chatVars == <<chatPc, nChats, query, docs, chat_out, chat_calls>>

ChatIdle == chatPc = "idle"

\* (mutant) every retrieved chunk is listed
AllSources(ds) == [i \in 1..Len(ds) |-> SourceInfo(ds[i])]

\* rag.py:110-121: unique_sources, one entry per relative path, in the order
\* the paths first occur in docs
UniqueSources(ds) ==
    LET F[i \in 0..Len(ds)] ==
          IF i = 0 THEN <<>>
          ELSE IF \E j \in 1..Len(F[i - 1]) : F[i - 1][j].path = SourceInfo(ds[i]).path
               THEN F[i - 1]
               ELSE Append(F[i - 1], SourceInfo(ds[i]))
    IN  F[Len(ds)]

\* rag.py:123-125: two yields per source
SourceLines(sources) ==
    LET F[i \in 0..Len(sources)] ==
          IF i = 0 THEN <<>>
          ELSE F[i - 1] \o
               << [kind |-> "source", idx |-> i, name |-> sources[i].filename,
                   language |-> sources[i].language, path |-> sources[i].path],
                  [kind |-> "source_path", idx |-> i, name |-> sources[i].filename,
                   language |-> sources[i].language, path |-> sources[i].path] >>
    IN  F[Len(sources)]

\* a yield that names no source
Line(kind) == [kind |-> kind, idx |-> 0, name |-> 0, language |-> "", path |-> <<>>]

\* rag.py:15-20: chat_stream is called
ChatStart(q) ==
    /\ ChatIdle
    /\ chatPc' = "check"
    /\ nChats' = nChats + 1
    /\ query' = q
    /\ docs' = <<>>
    /\ chat_out' = <<>>
    /\ chat_calls' = <<>>

\* rag.py:61-83: the store is asked for its records; an empty store ends the
\* stream with the guidance, a failing store with the database error
ChatCheck(F) ==
    /\ chatPc = "check"
    /\ \E ok \in Outcomes(F) :
         /\ chat_calls' = Append(chat_calls, [op |-> "get", query |-> "", k |-> 0, ok |-> ok])
         /\ IF ~ok
            THEN /\ chat_out' = Append(chat_out, Line("database_error"))
                 /\ chatPc' = "done"
            ELSE IF Count(store) = 0
                 THEN /\ chat_out' = Append(chat_out, Line("guidance"))
                      /\ chatPc' = "done"
                 ELSE /\ chat_out' = chat_out
                      /\ chatPc' = "hybrid"
    /\ UNCHANGED <<nChats, query, docs>>

\* rag.py:89: hybrid_search(query, vector_store, k=8) is entered
ChatHybrid ==
    /\ chatPc = "hybrid"
    /\ QueryFetch(CHAT_K)
    /\ chatPc' = "searching"
    /\ UNCHANGED <<nChats, query, docs, chat_out, chat_calls>>

\* (mutant) a failed hybrid search ends the retrieval
OnHybridErrorFail == "failed"

\* rag.py:91-94: the handler of the hybrid call goes to semantic-only search
OnHybridError == "fallback"

\* rag.py:89-91: hybrid_search returned its list, or raised
ChatRetrieved ==
    /\ chatPc = "searching"
    /\ qPc \in {"returned", "raised"}
    /\ chat_calls' = Append(chat_calls,
                        [op |-> "hybrid_search", query |-> query, k |-> k,
                         ok |-> qPc = "returned"])
    /\ IF qPc = "returned"
       THEN /\ docs' = Returned
            /\ chatPc' = "retrieved"
       ELSE /\ docs' = docs
            /\ chatPc' = OnHybridError
    /\ QueryReturn
    /\ UNCHANGED <<nChats, query, chat_out>>

\* rag.py:94, 129-133: vector_store.similarity_search(query, k=8); its failure
\* ends the stream with the retrieval error
ChatFallback(F) ==
    /\ chatPc = "fallback"
    /\ \E ok \in Outcomes(F) :
         /\ chat_calls' = Append(chat_calls,
                             [op |-> "similarity_search", query |-> query,
                              k |-> CHAT_K, ok |-> ok])
         /\ IF ok
            THEN /\ \E dist \in [1..Count(store) -> Distances] :
                      LET found == SimilaritySearch(store, dist, CHAT_K, 0)
                      IN  docs' = [i \in 1..Len(found) |-> found[i].doc]
                 /\ chat_out' = chat_out
                 /\ chatPc' = "retrieved"
            ELSE /\ docs' = docs
                 /\ chat_out' = Append(chat_out, Line("retrieval_error"))
                 /\ chatPc' = "done"
    /\ UNCHANGED <<nChats, query>>

\* (mutant) a retrieval is never taken to be empty
NoChunksNever(ds) == FALSE

\* rag.py:97: len(docs) == 0
NoChunks(ds) == Len(ds) = 0

\* rag.py:97-127: no chunk ends the stream; otherwise the sources are listed
ChatSources ==
    /\ chatPc = "retrieved"
    /\ IF NoChunks(docs)
       THEN /\ chat_out' = Append(chat_out, Line("no_results"))
            /\ chatPc' = "done"
       ELSE /\ chat_out' = chat_out \o <<Line("sources_header")>>
                             \o SourceLines(UniqueSources(docs))
                             \o <<Line("preparing")>>
            /\ chatPc' = "generate"
    /\ UNCHANGED <<nChats, query, docs, chat_calls>>

\* rag.py:136-143: the chain is entered
ChatGenerate ==
    /\ chatPc = "generate"
    /\ chat_calls' = Append(chat_calls,
                        [op |-> "llm", query |-> query, k |-> Len(docs), ok |-> TRUE])
    /\ chatPc' = "stream"
    /\ UNCHANGED <<nChats, query, docs, chat_out>>

Fragments == Len(SelectSeq(chat_out, LAMBDA l : l.kind = "fragment"))

\* rag.py:143-155: the model's next fragment, the end of its answer, or its
\* failure, which ends the stream with an error text
ChatFragment(F) ==
    /\ chatPc = "stream"
    /\ \/ /\ Fragments < MaxFragments
          /\ chat_out' = Append(chat_out, Line("fragment"))
          /\ chatPc' = "stream"
       \/ /\ chat_out' = chat_out
          /\ chatPc' = "done"
       \/ /\ FALSE \in Outcomes(F)
          /\ chat_out' = Append(chat_out, Line("generation_error"))
          /\ chatPc' = "done"
    /\ UNCHANGED <<nChats, query, docs, chat_calls>>

\* the stream is exhausted: its locals are gone
ChatEnd ==
    /\ chatPc = "done"
    /\ chatPc' = "idle"
    /\ query' = ""
    /\ docs' = <<>>
    /\ chat_out' = <<>>
    /\ chat_calls' = <<>>
    /\ UNCHANGED nChats

InitChat ==
    /\ chatPc = "idle"
    /\ nChats = 0
    /\ query = ""
    /\ docs = <<>>
    /\ chat_out = <<>>
    /\ chat_calls = <<>>

\* ------------------------------------- the search and file endpoints

\* what a request's path names on the server's disk
ApiPaths == {"missing", "dir", "file", "bigfile"}
Exists(p) == p # "missing"
IsDir(p) == p = "dir"
IsFile(p) == p \in {"file", "bigfile"}
\* os.path.getsize: "file" is exactly at the viewer's limit, "bigfile" one
\* byte over it
GetSize(p) == IF p = "bigfile" THEN 1024 * 1024 + 1 ELSE 1024 * 1024

\* query strings, as sequences of characters
MaxQueryLen == 2
QueryChars == {" ", "a", "("}
QueryStrings == UNION {[1..n -> QueryChars] : n \in 0..MaxQueryLen}
Thresholds == {0 - 1, 0, 70, 100, 101}

RECURSIVE LStrip(_)
LStrip(s) == IF s = <<>> \/ Head(s) # " " THEN s ELSE LStrip(Tail(s))
RECURSIVE RStrip(_)
RStrip(s) ==
    IF s = <<>> \/ s[Len(s)] # " " THEN s ELSE RStrip(SubSeq(s, 1, Len(s) - 1))
\* str.strip()
Strip(s) == RStrip(LStrip(s))

\* re.compile: of the patterns over QueryChars, those with a group that is
\* never closed are rejected
Compiles(pattern) == \A i \in 1..Len(pattern) : pattern[i] # "("

Returns(status) == [raised |-> FALSE, cls |-> "", status |-> status]
Raises(cls, status) == [raised |-> TRUE, cls |-> cls, status |-> status]

\* code_search.py regex_search: a path that is no directory gives no
\* result before the pattern is compiled
regex_search(pattern, p) ==
    IF ~Exists(p) \/ ~IsDir(p) THEN Returns(200)
    ELSE IF ~Compiles(pattern) THEN Raises("ValueError", 0)
    ELSE Returns(200)

\* code_search.py fuzzy_search
fuzzy_search(q, p, threshold) == Returns(200)

\* the except clauses of a handler, in order: the first one that matches
\* the exception raised in the try block answers with its own status; an
\* HTTPException no clause catches is rendered by the framework
Handled(body, handlers) ==
    LET matching == {i \in 1..Len(handlers) : Catches(handlers[i].cls, body.cls)}
    IN  IF ~body.raised THEN body.status
        ELSE IF matching # {}
             THEN handlers[CHOOSE i \in matching : \A j \in matching : i <= j].status
             ELSE body.status

Handler(cls, status) == [cls |-> cls, status |-> status]

\* endpoints.py regex_search_endpoint
regex_search_endpoint(r) ==
    Handled(IF Strip(r.query) = <<>> THEN Raises("HTTPException", 400)
            ELSE regex_search(r.query, r.path),
            <<Handler("ValueError", 400), Handler("Exception", 500)>>)

\* endpoints.py fuzzy_search_endpoint
fuzzy_search_endpoint(r) ==
    Handled(IF Strip(r.query) = <<>> THEN Raises("HTTPException", 400)
            ELSE IF ~(0 <= r.threshold /\ r.threshold <= 100)
                 THEN Raises("HTTPException", 400)
            ELSE fuzzy_search(r.query, r.path, r.threshold),
            <<Handler("Exception", 500)>>)

\* files.py list_files: os.scandir of a file raises NotADirectoryError
list_files(r) ==
    Handled(IF ~Exists(r.path) THEN Raises("HTTPException", 404)
            ELSE IF ~IsDir(r.path) THEN Raises("NotADirectoryError", 0)
            ELSE Returns(200),
            <<Handler("Exception", 500)>>)

\* files.py get_file_content
get_file_content(r) ==
    Handled(IF ~Exists(r.path) THEN Raises("HTTPException", 404)
            ELSE IF ~IsFile(r.path) THEN Raises("HTTPException", 400)
            ELSE IF GetSize(r.path) > 1024 * 1024 THEN Raises("HTTPException", 400)
            ELSE Returns(200),
            <<Handler("Exception", 500)>>)

VARIABLES
    apiPc,          \* "idle", "received" or "responded"
    request,        \* the request being served
    response        \* the status code the client got for it

apiVars == <<apiPc, request, response>>

SearchRequests ==
    [endpoint : {"/search/regex", "/search/fuzzy"}, query : QueryStrings,
     path : ApiPaths, threshold : Thresholds]
\* PathRequest has a path only
PathRequests ==
    [endpoint : {"/files/list", "/files/content"}, query : {<<>>},
     path : ApiPaths, threshold : {70}]

\* a client posts a request
ApiRequest(r) ==
    /\ apiPc # "received"
    /\ apiPc' = "received"
    /\ request' = r
    /\ response' = 0

\* the endpoint's handler answers it
ApiRespond ==
    /\ apiPc = "received"
    /\ apiPc' = "responded"
    /\ response' = CASE request.endpoint = "/search/regex" -> regex_search_endpoint(request)
                     [] request.endpoint = "/search/fuzzy" -> fuzzy_search_endpoint(request)
                     [] request.endpoint = "/files/list" -> list_files(request)
                     [] request.endpoint = "/files/content" -> get_file_content(request)
    /\ UNCHANGED request

InitApi ==
    /\ apiPc = "idle"
    /\ request = [endpoint |-> "", query |-> <<>>, path |-> "missing", threshold |-> 70]
    /\ response = 0

vars == <<ingVars, searchVars, fileVars, chatVars, apiVars>>

\* no pipeline under way
NoFiles ==
    /\ repo = <<>>
    /\ tree = <<>>
    /\ fpc = "off"
    /\ file_documents = <<>>
    /\ file_chunks = <<>>
    /\ entities_by_file = <<>>
    /\ enriched_chunks = <<>>

Init == InitIngest(PriorPaths) /\ InitSearch /\ NoFiles /\ InitChat /\ InitApi

Next ==
    \/ gen < MaxRuns /\ (\E p \in Paths : IngestEndpoint(p)) /\ UNCHANGED <<searchVars, fileVars, chatVars, apiVars>>
    \/ gen < MaxRuns /\ (\E p \in DirectPaths : CallStream(p)) /\ UNCHANGED <<searchVars, fileVars, chatVars, apiVars>>
    \/ IngStep(BOOLEAN) /\ UNCHANGED <<searchVars, fileVars, chatVars, apiVars>>

\* the ingestion service: runs triggered one after the other, on a store
\* that holds up to 12,000 records of an earlier run and whose calls may fail
Spec == Init /\ [][Next]_vars


\* ------------------------------------------------- claims: ingestion

CeilDiv(a, b) == (a + b - 1) \div b

DeleteCalls == SelectSeq(calls, LAMBDA c : c.op = "delete")
AddCalls == SelectSeq(calls, LAMBDA c : c.op = "add")
OkCount(cs) == Len(SelectSeq(cs, LAMBDA c : c.ok))
RunClean == \A b \in 1..Len(calls) : calls[b].ok
CleanupClean == \A b \in 1..Len(calls) : calls[b].op \in {"get", "delete"} => calls[b].ok
Summarised == out # <<>> /\ out[Len(out)].msg = "complete"

RECURSIVE Coalesce(_)
\* an id list with adjacent segments of one run joined
Coalesce(ids) ==
    IF Len(ids) < 2 THEN ids
    ELSE LET a == ids[1]
             b == ids[2] IN
         IF a.gen = b.gen /\ a.hi + 1 = b.lo
         THEN Coalesce(<<[a EXCEPT !.hi = b.hi]>> \o SubSeq(ids, 3, Len(ids)))
         ELSE <<a>> \o Coalesce(Tail(ids))

RECURSIVE Concat(_)
\* the arguments of a list of calls, one after the other
Concat(cs) == IF cs = <<>> THEN <<>> ELSE Head(cs).arg \o Concat(Tail(cs))

\* the chunks a store holds, whatever run inserted them
Content(st) ==
    [b \in 1..Len(st) |-> [repo |-> st[b].repo, lo |-> st[b].lo, hi |-> st[b].hi]]

\* C1 (as claimed): a run on an existing path that ends with every store
\* call it made having succeeded leaves the store holding exactly the chunks
\* of that run's repository, and no record from before the run; this includes
\* a repository with no loadable file, whose snapshot has no chunk.
C1_FullReplacement ==
    (ingPc = "done" /\ PathExists(repo_path) /\ RunClean)
        => store = Ingested(gen, repo_path)

\* C2 (as claimed): two runs in a row on the same existing repository, with
\* no store call failing, leave exactly the repository's chunks, each once,
\* and the store after the second run holds what it held after the first.
C2_Idempotent ==
    (/\ ingPc = "done" /\ RunClean /\ PathExists(repo_path)
     /\ prevRun.path = repo_path /\ prevRun.pc = "done" /\ prevRun.clean)
        => /\ store = Ingested(gen, repo_path)
           /\ Content(store) = Content(prior)

\* C3: in every run the fetch of the existing ids comes first, the k-th
\* delete call carries the k-th slice of the fetched id list, and once an
\* add call is made only add calls follow: no delete follows an add.
C3_Order ==
    /\ \A i, j \in 1..Len(calls) :
         i < j => /\ calls[j].op # "get"
                  /\ calls[i].op = "add" => calls[j].op = "add"
    /\ \A b \in 1..Len(DeleteCalls) :
         /\ calls[1].op = "get"
         /\ DeleteCalls[b].arg =
              Take(Drop(ids_to_delete, (b - 1) * BATCH_DELETE_LIMIT),
                   BATCH_DELETE_LIMIT)
    /\ AddCalls # <<>> => ingPc \notin {"get", "delete"}

C3_Witness ==
    /\ ingPc = "done"
    /\ Len(DeleteCalls) >= 2
    /\ Len(AddCalls) >= 2

\* C4: once the delete loop of a run is over, the fetch having returned n
\* ids and no delete having failed, there were exactly ceil(n / 5000) delete
\* calls (none for n = 0); every call but the last carried 5000 ids and the
\* last the remainder, none was empty; the calls' id lists, one after the
\* other, are the fetched id list, so that every id was deleted exactly
\* once, and no fetched record is left in the store; 12,000 ids go in calls of
\* 5000, 5000 and 2000.
C4_DeleteBatching ==
    LET n == Count(ids_to_delete)
        d == DeleteCalls
    IN  (/\ calls # <<>> /\ calls[1].op = "get" /\ calls[1].ok
         /\ ingPc \notin {"get", "delete"}
         /\ \A b \in 1..Len(d) : d[b].ok)
        => /\ Len(d) = CeilDiv(n, BATCH_DELETE_LIMIT)
           /\ \A b \in 1..Len(d) :
                Count(d[b].arg) = IF b < Len(d) THEN BATCH_DELETE_LIMIT
                                  ELSE n - (Len(d) - 1) * BATCH_DELETE_LIMIT
           /\ \A b \in 1..Len(d) : Count(d[b].arg) \in 1..BATCH_DELETE_LIMIT
           /\ Coalesce(Concat(d)) = ids_to_delete
           /\ \A b \in 1..Len(store) : store[b].gen = gen
           /\ n = 12000 => [b \in 1..Len(d) |-> Count(d[b].arg)] = <<5000, 5000, 2000>>

C4_Witness ==
    /\ Count(ids_to_delete) = 12000
    /\ Len(DeleteCalls) = 3
    /\ \A b \in 1..3 : DeleteCalls[b].ok
    /\ ingPc = "done"

CleanupFailedAt(b) == calls[b].op \in {"get", "delete"} /\ ~calls[b].ok

\* what the store holds after a clean-up that deleted the first batches of
\* the prior records and an insert loop that added the chunks 1..m
AfterRun(m) ==
    Drop(prior, OkCount(DeleteCalls) * BATCH_DELETE_LIMIT)
    \o (IF m = 0 THEN <<>>
        ELSE <<[gen |-> gen, repo |-> repo_path, lo |-> 1, hi |-> m]>>)

\* C5 (as claimed): when the fetch or a delete batch of a run fails, no
\* further delete is attempted, the run does not end in a raised failure, and
\* it ends with the final summary, every insert batch made, the store holding
\* the prior records not yet deleted followed by all chunks of the run.
C5_CleanupFailure ==
    \A b \in 1..Len(calls) : CleanupFailedAt(b) =>
        /\ \A j \in (b + 1)..Len(calls) : calls[j].op = "add"
        /\ ingPc \in {"add", "complete", "done"}
        /\ ingPc = "done" =>
             /\ Summarised
             /\ Len(AddCalls) = CeilDiv(chunks, BATCH_SIZE)
             /\ store = AfterRun(chunks)

\* C5 (amended): when the fetch or a delete batch of a run fails, no further
\* delete is attempted and the failure itself is not propagated (the run goes
\* on to its insert block); unless an insert batch then fails, which alone
\* makes the run raise, the run ends with the final summary, every insert
\* batch made, the store holding the prior records not yet deleted followed
\* by all chunks of the run.
C5_CleanupFailureAmended ==
    \A b \in 1..Len(calls) : CleanupFailedAt(b) =>
        /\ \A j \in (b + 1)..Len(calls) : calls[j].op = "add"
        /\ ingPc \in {"add", "complete", "done", "raised"}
        /\ ingPc = "raised" =>
             /\ calls[Len(calls)].op = "add"
             /\ ~calls[Len(calls)].ok
        /\ ingPc = "done" =>
             /\ Summarised
             /\ Len(AddCalls) = CeilDiv(chunks, BATCH_SIZE)
             /\ \A j \in 1..Len(AddCalls) : AddCalls[j].ok
             /\ store = AfterRun(chunks)

C5_Witness ==
    /\ ingPc = "done"
    /\ Len(DeleteCalls) = 2
    /\ DeleteCalls[1].ok
    /\ ~DeleteCalls[2].ok
    /\ Len(AddCalls) = 2
    /\ Count(store) = 7000 + chunks

InsertFailedAt(b) == calls[b].op = "add" /\ ~calls[b].ok

\* C6 (as claimed): when an insert batch fails it is the run's last store
\* call, the failure leaves the generator, no final summary is emitted, and
\* the store holds no prior record and only the batches added before the
\* failing one.
C6_InsertFailure ==
    \A b \in 1..Len(calls) : InsertFailedAt(b) =>
        /\ b = Len(calls)
        /\ ingPc = "raised"
        /\ \A m \in 1..Len(out) : out[m].msg # "complete"
        /\ store = IF OkCount(AddCalls) = 0 THEN <<>>
                   ELSE <<[gen |-> gen, repo |-> repo_path, lo |-> 1,
                           hi |-> OkCount(AddCalls) * BATCH_SIZE]>>

\* C6 (amended): when an insert batch fails it is the run's last store call,
\* the failure leaves the generator, no final summary is emitted, and the
\* store holds the prior records the clean-up did not delete (none when the
\* fetch and every delete succeeded) and, of the new chunks, only the batches
\* added before the failing one.
C6_InsertFailureAmended ==
    \A b \in 1..Len(calls) : InsertFailedAt(b) =>
        /\ b = Len(calls)
        /\ ingPc = "raised"
        /\ \A m \in 1..Len(out) : out[m].msg # "complete"
        /\ store = AfterRun(OkCount(AddCalls) * BATCH_SIZE)
        /\ CleanupClean => \A m \in 1..Len(store) : store[m].gen = gen

C6_Witness ==
    /\ ingPc = "raised"
    /\ prior # <<>>
    /\ CleanupClean
    /\ Len(AddCalls) = 2
    /\ store = <<[gen |-> gen, repo |-> repo_path, lo |-> 1, hi |-> BATCH_SIZE]>>

\* C7 (as claimed): a post to /ingest with a path that does not exist is
\* answered with status 404, and no step of the ingestion is executed.
C7_PathNotFound ==
    (httpStatus # 0 /\ ~PathExists(repo_path))
        => /\ httpStatus = 404
           /\ ingPc = "idle"
           /\ calls = <<>>
           /\ out = <<>>
           /\ store = prior

\* ----------------------------------------------- the search service
\* From an empty store (main.py clears it at startup): ingestion runs over
\* small repositories, with no store failure, and hybrid queries, one
\* operation at a time.

InitSearchService == InitIngest({"nofiles"}) /\ InitSearch /\ NoFiles /\ InitChat /\ InitApi

NextSearchService ==
    \/ /\ gen < MaxRuns
       /\ QueryIdle
       /\ \E p \in SmallPaths : IngestEndpoint(p)
       /\ UNCHANGED <<searchVars, fileVars, chatVars, apiVars>>
    \/ IngStep({TRUE}) /\ UNCHANGED <<searchVars, fileVars, chatVars, apiVars>>
    \/ /\ nQueries < MaxQueries
       /\ RunIdle
       /\ \E n \in 1..MaxK : QueryFetch(n)
       /\ UNCHANGED <<ingVars, fileVars, chatVars, apiVars>>
    \/ QueryRank({TRUE}) /\ UNCHANGED <<ingVars, fileVars, chatVars, apiVars>>
    \/ QueryReturn /\ UNCHANGED <<ingVars, fileVars, chatVars, apiVars>>

SpecSearch == InitSearchService /\ [][NextSearchService]_vars

\* --------------------------------------------- claims: hybrid search

\* C8: the list search returns has at most k elements, and their fused
\* scores are in non-increasing order.
C8_TopKSorted ==
    qPc = "returned" =>
        /\ k >= 1
        /\ Len(Returned) <= k
        /\ Len(Returned) = Min(k, Len(ranked_results))
        /\ \A i, j \in 1..Len(Returned) :
             i < j => ~RatLess(ranked_results[i].score, ranked_results[j].score)

\* a call that cut its candidates to k, among them a lexical-only candidate
\* ranked above a semantic one
C8_Witness ==
    /\ qPc = "returned"
    /\ Len(ranked_results) > k
    /\ Len(Returned) = 2
    /\ RatLess(ranked_results[2].score, ranked_results[1].score)
    /\ RatEq(ranked_results[1].semantic, Zero)

\* the similarity the vector search of the call gave a record (0: not retrieved)
SemOf(rec) ==
    IF \E j \in 1..Len(semantic_results) : semantic_results[j].doc.rec = rec
    THEN Similarity(semantic_results[
             CHOOSE j \in 1..Len(semantic_results) :
                 semantic_results[j].doc.rec = rec].distance)
    ELSE Zero

\* the normalised lexical score of a record in the call (0: not retrieved)
LexOf(rec) ==
    IF \E j \in 1..Len(bm25_results) : bm25_results[j].doc.rec = rec
    THEN bm25_results[CHOOSE j \in 1..Len(bm25_results) :
                          bm25_results[j].doc.rec = rec].score
    ELSE Zero

FusedOf(rec) ==
    RatAdd(RatMul(SemOf(rec), semantic_weight), RatMul(LexOf(rec), bm25_weight))

\* the three-chunk corpus of the fusion scenario: A semantic 0.9 and not
\* retrieved lexically, B lexical 1.0 and not retrieved semantically,
\* C semantic 0.5 and lexical 0.5
FusionScenario ==
    /\ Count(store) = 3
    /\ Len(documents) = 3
    /\ \A i \in 1..3 : documents[i].rec = <<gen, i>>
    /\ RatEq(SemOf(<<gen, 1>>), <<9, 10>>) /\ RatEq(LexOf(<<gen, 1>>), Zero)
    /\ RatEq(SemOf(<<gen, 2>>), Zero) /\ RatEq(LexOf(<<gen, 2>>), <<1, 1>>)
    /\ RatEq(SemOf(<<gen, 3>>), <<1, 2>>) /\ RatEq(LexOf(<<gen, 3>>), <<1, 2>>)

\* C9 (as claimed): every candidate of a call carries the fused score
\* similarity * 0.7 + lexical * 0.3 of its record, with 0 for a component the
\* record was not retrieved by; a record retrieved by both modes is one
\* candidate; in the fusion scenario the ranking is A 0.63, C 0.50, B 0.30.
C9_Fusion ==
    qPc = "returned" =>
        /\ \A i \in 1..Len(ranked_results) :
             RatEq(ranked_results[i].score, FusedOf(ranked_results[i].doc.rec))
        /\ \A i, j \in 1..Len(ranked_results) :
             ranked_results[i].doc.rec = ranked_results[j].doc.rec => i = j
        /\ FusionScenario =>
             /\ [i \in 1..Len(ranked_results) |-> ranked_results[i].doc.rec[2]]
                  = <<1, 3, 2>>
             /\ RatEq(ranked_results[1].score, <<63, 100>>)
             /\ RatEq(ranked_results[2].score, <<50, 100>>)
             /\ RatEq(ranked_results[3].score, <<30, 100>>)

\* C10 (as claimed): no stored record is returned twice by one call.
C10_Deduplicated ==
    qPc = "returned" =>
        \A i, j \in 1..Len(Returned) :
            Returned[i].rec = Returned[j].rec => i = j

\* C11 (as claimed): a search over a store of zero records returns an empty
\* list and raises no error, whether or not an index was built before.
C11_EmptyCorpus ==
    (qPc \in {"returned", "raised"} /\ Count(store) = 0) =>
        /\ qPc = "returned"
        /\ Returned = <<>>

\* C12: when a query is about to run its lexical scoring, the cached corpus
\* has as many entries as the records the query fetched, and an index exists;
\* a corpus that was not rebuilt by this query is the one an earlier query
\* cached.
C12_CorpusSize ==
    qPc = "fetched" =>
        /\ bm25_index.built
        /\ Len(documents) = Len(all_documents)
        /\ Len(all_documents) = Count(store)
        /\ \/ documents = all_documents
           \/ \A i \in 1..Len(documents) : documents[i].obj[2] < nQueries

\* a query that rebuilt its index because the count changed since the
\* corpus of an earlier query was cached: the run in between replaced the
\* store by one of another size
C12_Witness ==
    /\ qPc = "fetched"
    /\ nQueries = 2
    /\ bm25_index.built
    /\ documents = all_documents
    /\ gen = 2
    /\ prior # <<>>
    /\ Count(prior) # Count(store)

\* the lexical scorer gave every record of a non-empty corpus a raw score of 0
AllLexicalZero ==
    /\ bm25_results # <<>>
    /\ RatEq(bm25_results[1].score, Zero)

\* C14 (as claimed): with no lexical match the call returns the
\* vector-search candidates, nearest first, each with the fused score
\* similarity * semantic_weight, and no candidate without a semantic score
\* is ranked before one that has one.
C14_SemanticOnly ==
    (qPc = "returned" /\ AllLexicalZero) =>
        /\ \A i \in 1..Len(Returned) :
             /\ i <= Len(semantic_results)
             /\ Returned[i] = semantic_results[i].doc
             /\ RatEq(ranked_results[i].score,
                      RatMul(Similarity(semantic_results[i].distance), semantic_weight))
        /\ \A i, j \in 1..Len(ranked_results) :
             (RatEq(ranked_results[i].semantic, Zero)
                /\ ~RatEq(ranked_results[j].semantic, Zero)) => j < i

\* the code-intelligence step of the run failed
CiSkipped == \E i \in 1..Len(out) : out[i].msg = "ci_skipped"

InitPipeline == InitIngest({"nofiles"}) /\ InitSearch /\ InitFiles(Roots, Trees) /\ InitChat /\ InitApi

NextPipeline ==
    \/ FileLoad /\ UNCHANGED <<ingVars, searchVars, chatVars, apiVars>>
    \/ FileSplit /\ UNCHANGED <<ingVars, searchVars, chatVars, apiVars>>
    \/ FileExtract /\ UNCHANGED <<ingVars, searchVars, chatVars, apiVars>>
    \/ FileEnrich /\ UNCHANGED <<ingVars, searchVars, chatVars, apiVars>>

\* the loading, chunking and code-intelligence steps of a run, over every
\* tree made of the files of PoolFiles
SpecPipeline == InitPipeline /\ [][NextPipeline]_vars

\* some directory on the way to the file is denylisted
Denylisted(f) == \E i \in 1..Len(f.dir) : f.dir[i] \in IGNORED_DIRS

HasIgnoredSegment(path) == \E i \in 1..Len(path) : path[i] \in IGNORED_DIRS

\* C15 (as claimed): whatever the repository root, no chunk has a source
\* path with a denylisted segment.
C15_Denylist ==
    \A i \in 1..Len(enriched_chunks) : ~HasIgnoredSegment(enriched_chunks[i].source)

\* C15 (amended): no chunk has a denylisted segment in the part of its source
\* path below the repository root (its relative path), at any depth.
C15_DenylistAmended ==
    /\ \A i \in 1..Len(file_documents) :
         /\ ~HasIgnoredSegment(file_documents[i].relative_path)
         /\ file_documents[i].source = repo \o file_documents[i].relative_path
    /\ \A i \in 1..Len(enriched_chunks) :
         /\ ~HasIgnoredSegment(enriched_chunks[i].relative_path)
         /\ enriched_chunks[i].source = repo \o enriched_chunks[i].relative_path

\* a tree with a denylisted directory at the top and one further down, under
\* a root that has a denylisted segment itself, was chunked
C15_Witness ==
    /\ fpc = "end"
    /\ enriched_chunks # <<>>
    /\ HasIgnoredSegment(repo)
    /\ \E i, j \in 1..Len(tree) :
         /\ tree[i].dir = <<"build">>
         /\ Len(tree[j].dir) = 3 /\ Denylisted(tree[j])

\* C16: load_documents returns exactly the files outside denylisted
\* directories that have an allow-listed extension and load, in walk order;
\* a file that fails to load changes nothing else.
C16_LoadDocuments ==
    fpc \notin {"load", "off"} =>
        LET expected == SelectSeq(tree, LAMBDA f :
                            /\ ~Denylisted(f)
                            /\ Splitext(f.name) \in SUPPORTED_EXTENSIONS
                            /\ f.readable)
        IN  /\ Len(file_documents) = Len(expected)
            /\ \A i \in 1..Len(expected) :
                 /\ file_documents[i].source = repo \o expected[i].dir \o <<expected[i].name>>
                 /\ file_documents[i] = Loaded(repo, expected[i])

\* a file failed to load and files visited before and after it were loaded
C16_Witness ==
    /\ fpc = "split"
    /\ \E i, j, l \in 1..Len(tree) :
         /\ i < j /\ j < l
         /\ ~tree[j].readable
         /\ \E a, b \in 1..Len(file_documents) :
              /\ file_documents[a].filename = tree[i].name
              /\ file_documents[b].filename = tree[l].name
              /\ ~Denylisted(tree[l])

\* the entities extract_code_entities reported for a file (none: no entry)
EntitiesOfFile(by, path) ==
    IF Has(by, path) THEN by[IndexOf(by, path)].entities ELSE <<>>

\* C17: every chunk whose source is a key of the mapping carries the
\* serialized full entity list of its file, its length and the flag, whatever
\* its position in the file; every other chunk is unchanged; number, order
\* and text of the chunks are unchanged.
C17_AddEntities ==
    fpc = "end" /\ entities_by_file # <<>> =>
        /\ Len(enriched_chunks) = Len(file_chunks)
        /\ \A i \in 1..Len(file_chunks) :
             LET before == file_chunks[i]
                 after == enriched_chunks[i]
             IN  /\ after.text = before.text
                 /\ after.source = before.source
                 /\ [after EXCEPT !.entities = NoEntityMetadata] = before
                 /\ IF Has(entities_by_file, before.source)
                    THEN LET es == EntitiesOfFile(entities_by_file, before.source) IN
                         /\ after.entities.present
                         /\ after.entities.has_code_intelligence
                         /\ after.entities.entity_count = Len(es)
                         /\ Len(after.entities.code_entities) = Len(es)
                         /\ \A j \in 1..Len(es) :
                              /\ after.entities.code_entities[j].type = es[j].entity_type
                              /\ after.entities.code_entities[j].name = es[j].name
                              /\ after.entities.code_entities[j].start_line = es[j].start_line
                              /\ after.entities.code_entities[j].end_line = es[j].end_line
                              /\ after.entities.code_entities[j].file_path = es[j].file_path
                    ELSE after = before

\* chunks of a file with entities, its second chunk among them, and chunks
\* of a file without
C17_Witness ==
    /\ fpc = "end"
    /\ \E i, j \in 1..Len(enriched_chunks) :
         /\ enriched_chunks[i].entities.present
         /\ enriched_chunks[i].entities.entity_count = 2
         /\ enriched_chunks[i].text[2] = 2
         /\ ~enriched_chunks[j].entities.present

\* C19: extract_code_entities does not fail; a file with an unsupported
\* extension and a file whose parse fails have no entry; every other file's
\* entities are those of its own text, the same as when the failing files
\* are left out of the list.
C19_Extract ==
    fpc \in {"enrich", "end", "skipped"} /\ file_chunks # <<>> =>
        /\ fpc # "skipped"
        /\ \A i \in 1..Len(entities_by_file) :
             \E j \in 1..Len(file_documents) :
                 file_documents[j].source = entities_by_file[i].key
        /\ \A j \in 1..Len(file_documents) :
             LET doc == file_documents[j] IN
             IF doc.extension \notin PARSED_EXTENSIONS \/ doc.page_content.parse = "fail"
             THEN ~Has(entities_by_file, doc.source)
             ELSE EntitiesOfFile(entities_by_file, doc.source)
                    = CodeEntities(doc.page_content, doc.source)
        /\ entities_by_file =
             extract_code_entities(
                 SelectSeq(file_documents,
                           LAMBDA d : d.page_content.parse # "fail")).map

\* a parse failed between two files whose entities were reported, next to a
\* file with an unsupported extension
C19_Witness ==
    /\ fpc = "enrich"
    /\ Len(entities_by_file) = 2
    /\ \E a, b, c, d \in 1..Len(file_documents) :
         /\ a < b /\ b < c
         /\ Has(entities_by_file, file_documents[a].source)
         /\ file_documents[b].page_content.parse = "fail"
         /\ Has(entities_by_file, file_documents[c].source)
         /\ file_documents[d].extension = ".md"

\* ------------------------------------------------- claims: the chat pipeline

\* the repositories opened before a question is asked
ChatPaths == {"nofiles", "solo", "trio"}

InitChatService == InitIngest({"nofiles"}) /\ InitSearch /\ NoFiles /\ InitChat /\ InitApi

NextChatService ==
    \/ /\ gen < MaxRuns /\ QueryIdle /\ ChatIdle
       /\ \E p \in ChatPaths : IngestEndpoint(p)
       /\ UNCHANGED <<searchVars, fileVars, chatVars, apiVars>>
    \/ IngStep({TRUE}) /\ UNCHANGED <<searchVars, fileVars, chatVars, apiVars>>
    \/ /\ nChats < MaxChats /\ RunIdle
       /\ \E q \in Queries : ChatStart(q)
       /\ UNCHANGED <<ingVars, searchVars, fileVars, apiVars>>
    \/ ChatCheck(BOOLEAN) /\ UNCHANGED <<ingVars, searchVars, fileVars, apiVars>>
    \/ ChatHybrid /\ UNCHANGED <<ingVars, fileVars, apiVars>>
    \/ chatPc = "searching" /\ QueryRank(BOOLEAN) /\ UNCHANGED <<ingVars, fileVars, chatVars, apiVars>>
    \/ ChatRetrieved /\ UNCHANGED <<ingVars, fileVars, apiVars>>
    \/ ChatFallback(BOOLEAN) /\ UNCHANGED <<ingVars, searchVars, fileVars, apiVars>>
    \/ ChatSources /\ UNCHANGED <<ingVars, searchVars, fileVars, apiVars>>
    \/ ChatGenerate /\ UNCHANGED <<ingVars, searchVars, fileVars, apiVars>>
    \/ ChatFragment(BOOLEAN) /\ UNCHANGED <<ingVars, searchVars, fileVars, apiVars>>
    \/ ChatEnd /\ UNCHANGED <<ingVars, searchVars, fileVars, apiVars>>

\* the chat service: repositories are ingested and questions asked, one at
\* a time; the store's calls and the generative model may fail
SpecChat == InitChatService /\ [][NextChatService]_vars

Said(kind) == \E i \in 1..Len(chat_out) : chat_out[i].kind = kind
Called(op) == \E i \in 1..Len(chat_calls) : chat_calls[i].op = op

\* C13: a failing similarity search makes the hybrid call fail with no list
\* returned; the chat stream then retrieves with similarity_search for the
\* same query and k = 8; the stream ends with the retrieval error exactly
\* when that call fails too, and then the generative model is not called.
C13_Fallback ==
    /\ qPc = "raised" => ranked_results = <<>>
    /\ \A i \in 1..Len(chat_calls) :
         (chat_calls[i].op = "hybrid_search" /\ ~chat_calls[i].ok) =>
             /\ docs = <<>> \/ Called("similarity_search")
             /\ IF i = Len(chat_calls)
                THEN chatPc = "fallback"
                ELSE /\ chat_calls[i + 1].op = "similarity_search"
                     /\ chat_calls[i + 1].query = chat_calls[i].query
                     /\ chat_calls[i + 1].query = query
                     /\ chat_calls[i + 1].k = 8
                     /\ chat_calls[i].k = 8
    /\ \A i \in 1..Len(chat_calls) :
         chat_calls[i].op = "similarity_search" =>
             /\ i > 1
             /\ chat_calls[i - 1].op = "hybrid_search"
             /\ ~chat_calls[i - 1].ok
             /\ chat_calls[i].ok => chatPc \in {"retrieved", "generate", "stream", "done"}
             /\ (chat_calls[i].ok /\ chatPc = "done") => ~Said("no_results")
    /\ Said("retrieval_error") <=>
         \E i \in 1..Len(chat_calls) :
             chat_calls[i].op = "similarity_search" /\ ~chat_calls[i].ok
    /\ Said("retrieval_error") =>
         /\ chatPc = "done"
         /\ ~Called("llm")
         /\ chat_out[Len(chat_out)].kind = "retrieval_error"
         /\ ~Said("fragment")

\* a stream whose hybrid call failed answered from the semantic-only chunks
C13_Witness ==
    /\ chatPc = "done"
    /\ Len(chat_calls) = 4
    /\ chat_calls[2].op = "hybrid_search" /\ ~chat_calls[2].ok
    /\ chat_calls[3].op = "similarity_search" /\ chat_calls[3].ok
    /\ chat_calls[4].op = "llm"
    /\ Len(docs) = 3
    /\ Fragments = 2

\* the relative paths of the chunks, each once, in order of first occurrence
DistinctPaths(ds) ==
    LET F[i \in 0..Len(ds)] ==
          IF i = 0 THEN <<>>
          ELSE IF \E j \in 1..(i - 1) : FileOfChunk(ds[j].text) = FileOfChunk(ds[i].text)
               THEN F[i - 1]
               ELSE Append(F[i - 1], FileOfChunk(ds[i].text))
    IN  F[Len(ds)]

ListedPaths ==
    LET lines == SelectSeq(chat_out, LAMBDA l : l.kind = "source_path")
    IN  [i \in 1..Len(lines) |-> lines[i].path]

\* C20: in a stream that reached generation the listing of the sources is
\* complete before the first fragment, and names each distinct relative path
\* of the retrieved chunks once, in order of first occurrence.
C20_SourcesFirst ==
    (chatPc \in {"generate", "stream"} \/ Said("fragment") \/ Called("llm")) =>
        /\ ListedPaths = DistinctPaths(docs)
        /\ \A i, j \in 1..Len(ListedPaths) : ListedPaths[i] = ListedPaths[j] => i = j
        /\ \A i, j \in 1..Len(chat_out) :
             (chat_out[i].kind \in {"sources_header", "source", "source_path", "preparing"}
                /\ chat_out[j].kind \in {"fragment", "generation_error"}) => i < j
        /\ \A i \in 1..Len(ListedPaths) :
             /\ chat_out[2 * i].kind = "source" /\ chat_out[2 * i].idx = i
             /\ chat_out[2 * i + 1].kind = "source_path"
             /\ chat_out[2 * i + 1].path = ListedPaths[i]
        /\ chat_out[1].kind = "sources_header"
        /\ chat_out[2 * Len(ListedPaths) + 2].kind = "preparing"

\* an answer over chunks of two files, the second file's chunk ranked first
\* and the first file retrieved more than once
C20_Witness ==
    /\ Fragments = 2
    /\ Len(docs) > 2
    /\ ListedPaths = << <<"trio", 2>>, <<"trio", 1>> >>

\* --------------------------------------- claims: the run and its messages

\* the generator is iterated until it is exhausted
SpecFair ==
    Init /\ [][Next]_vars
         /\ WF_vars(IngStep(BOOLEAN) /\ UNCHANGED <<searchVars, fileVars, chatVars, apiVars>>)

Emitted(m) == \E i \in 1..Len(out) : out[i].msg = m
EndMessages == {"path_not_found", "no_valid_documents", "complete"}

\* how a run ends, and what its final summary says
RunEndings ==
    /\ Len(out) <= 10
    /\ Len(calls) <= 1 + CeilDiv(Count(prior), BATCH_DELETE_LIMIT)
                       + CeilDiv(chunks, BATCH_SIZE)
    /\ \A i \in 1..Len(out) :
         out[i].msg \in EndMessages => (i = Len(out) /\ ingPc = "done")
    /\ ingPc = "done" =>
         /\ out # <<>>
         /\ out[Len(out)].msg \in EndMessages
    /\ ingPc = "raised" =>
         /\ calls # <<>>
         /\ calls[Len(calls)].op = "add"
         /\ ~calls[Len(calls)].ok
    /\ Emitted("path_not_found") => ~PathExists(repo_path) /\ calls = <<>>
    /\ Emitted("no_valid_documents") =>
         PathExists(repo_path) /\ FilesOf(repo_path) = 0 /\ calls = <<>>
    /\ Emitted("complete") =>
         /\ \A j \in 1..Len(AddCalls) : AddCalls[j].ok
         /\ Len(AddCalls) = CeilDiv(ChunksOf(repo_path), BATCH_SIZE)
         /\ out[Len(out)].files = FilesOf(repo_path)
         /\ out[Len(out)].chunks = ChunksOf(repo_path)
         /\ Count(Concat(AddCalls)) = out[Len(out)].chunks
         /\ FilesOf(repo_path) > 0

C24_InsertBatching ==
    /\ BATCH_SIZE = 166
    /\ \A j \in 1..Len(AddCalls) :
         LET a == AddCalls[j].arg[1] IN
         /\ a.lo = (j - 1) * 166 + 1
         /\ a.hi = Min(j * 166, chunks)
         /\ a.lo <= a.hi
         /\ a.hi - a.lo + 1 <= 166
         /\ chunks > 0
    /\ (ingPc \in {"complete", "done"} /\ ~Emitted("path_not_found")
          /\ ~Emitted("no_valid_documents")
          /\ \A j \in 1..Len(AddCalls) : AddCalls[j].ok) =>
         /\ chunks = ChunksOf(repo_path)
         /\ Len(AddCalls) = CeilDiv(chunks, 166)
         /\ Count(Concat(AddCalls)) = chunks
         /\ chunks = 0 => AddCalls = <<>>

\* 332 chunks went in two full batches
C24_Witness ==
    /\ ingPc = "done"
    /\ chunks = 2 * BATCH_SIZE
    /\ Len(AddCalls) = 2
    /\ AddCalls[2].ok
    /\ AddCalls[2].arg[1].hi = 332

\* C26: a run that ends at the path check or because no document loaded made
\* no get, delete or add call, left the store as it was, and did not touch
\* the lexical index.
C26_EarlyExit ==
    (Emitted("path_not_found") \/ Emitted("no_valid_documents")) =>
        /\ calls = <<>>
        /\ store = prior
        /\ chunks = 0
        /\ ingPc = "done"
        /\ bm25_index = None
        /\ documents = <<>>

\* a run over a tree without loadable files left a populated store alone
C26_Witness ==
    /\ ingPc = "done"
    /\ Emitted("no_valid_documents")
    /\ Count(store) = 12000
    /\ gen = 2
    /\ prevRun.pc = "done"


\* ------------------------------------------ claims: the HTTP endpoints

InitApiService == InitIngest({"nofiles"}) /\ InitSearch /\ NoFiles /\ InitChat /\ InitApi

NextApiService ==
    \/ (\E r \in SearchRequests \cup PathRequests : ApiRequest(r))
         /\ UNCHANGED <<ingVars, searchVars, fileVars, chatVars>>
    \/ ApiRespond /\ UNCHANGED <<ingVars, searchVars, fileVars, chatVars>>

\* the search and file endpoints, one request at a time
SpecApi == InitApiService /\ [][NextApiService]_vars

\* the status the endpoint's own validation chose for the request, 0 when
\* the validation lets it through
Chosen(r) ==
    CASE r.endpoint = "/search/regex" ->
             IF Strip(r.query) = <<>> THEN 400 ELSE 0
      [] r.endpoint = "/search/fuzzy" ->
             IF Strip(r.query) = <<>> \/ r.threshold < 0 \/ r.threshold > 100
             THEN 400 ELSE 0
      [] r.endpoint \in {"/files/list", "/files/content"} ->
             IF ~Exists(r.path) THEN 404 ELSE 0
      [] OTHER -> 0

\* C27: a request rejected by an endpoint's own validation reaches the
\* client with the status that validation chose (400 for an empty query or
\* an out-of-range threshold, 404 for a missing path), never as a 500
C27_ValidationStatus ==
    (apiPc = "responded" /\ Chosen(request) # 0) => response = Chosen(request)

\* ------------------------------------------ claims: the lexical corpus

\* C25: with runs and queries executed one at a time, every chunk a hybrid
\* query returns is the text and metadata of a record that is in the store
\* when the query fetches the corpus; after the index is replaced by another
\* repository of the same number of chunks, no chunk of the previous
\* repository is returned
C25_NoStaleChunk ==
    qPc = "returned" =>
        \A i \in 1..Len(Returned) :
            \E j \in 1..Len(all_documents) : all_documents[j].text = Returned[i].text


\* ------------------------- claims: ingestion and chat at the same time

\* (mutant) a request waits until the other stream is exhausted
AdmittedAlone(busy) == ~busy

\* endpoints.py:17-49: both handlers return their StreamingResponse at once
\* and neither takes a lock: a request is served whatever the other stream
\* is doing
Admitted(busy) == TRUE

ConcurrentPaths == {"solo", "tiny"}

StartRun ==
    /\ gen < MaxRuns
    /\ Admitted(~ChatIdle)
    /\ \E p \in ConcurrentPaths : IngestEndpoint(p)
    /\ UNCHANGED <<searchVars, fileVars, chatVars, apiVars>>

StartChat ==
    /\ nChats < MaxChats
    /\ Admitted(~RunIdle)
    /\ \E q \in Queries : ChatStart(q)
    /\ UNCHANGED <<ingVars, searchVars, fileVars, apiVars>>

InitConcurrent == InitIngest({"nofiles"}) /\ InitSearch /\ NoFiles /\ InitChat /\ InitApi

NextConcurrent ==
    \/ StartRun
    \/ IngStep({TRUE}) /\ UNCHANGED <<searchVars, fileVars, chatVars, apiVars>>
    \/ StartChat
    \/ ChatCheck(BOOLEAN) /\ UNCHANGED <<ingVars, searchVars, fileVars, apiVars>>
    \/ ChatHybrid /\ UNCHANGED <<ingVars, fileVars, apiVars>>
    \/ chatPc = "searching" /\ QueryRank(BOOLEAN) /\ UNCHANGED <<ingVars, fileVars, chatVars, apiVars>>
    \/ ChatRetrieved /\ UNCHANGED <<ingVars, fileVars, apiVars>>
    \/ ChatFallback(BOOLEAN) /\ UNCHANGED <<ingVars, searchVars, fileVars, apiVars>>
    \/ ChatSources /\ UNCHANGED <<ingVars, searchVars, fileVars, apiVars>>
    \/ ChatGenerate /\ UNCHANGED <<ingVars, searchVars, fileVars, apiVars>>
    \/ ChatFragment(BOOLEAN) /\ UNCHANGED <<ingVars, searchVars, fileVars, apiVars>>
    \/ ChatEnd /\ UNCHANGED <<ingVars, searchVars, fileVars, apiVars>>

\* the server with an ingestion stream and a chat stream open at the same
\* time, their steps interleaved in any order
SpecConcurrent == InitConcurrent /\ [][NextConcurrent]_vars

\* the records a fetch saw
Observed == [i \in 1..Len(all_documents) |-> all_documents[i].rec]
RecordsOf(st) == [i \in 1..Len(Records(st)) |-> <<Records(st)[i].gen, Records(st)[i].idx>>]

\* C22: nothing separates ingestion from queries: while a run is under way
\* a chat (and its hybrid query) can start, and while a chat is under way a
\* run can start, so that a query's fetch can see the store between the
\* run's clean-up and its inserts
C22_NoMutualExclusion ==
    /\ (~RunIdle /\ ChatIdle /\ nChats < MaxChats) => ENABLED StartChat
    /\ (~ChatIdle /\ RunIdle /\ gen < MaxRuns) => ENABLED StartRun
    /\ (~RunIdle /\ chatPc = "hybrid") =>
           ENABLED (ChatHybrid /\ UNCHANGED <<ingVars, fileVars, apiVars>>)

\* a run that replaces a non-empty index has cleared it and inserted
\* nothing yet, and the query's fetch has just seen the empty store: neither
\* the records before the run nor those after it
C22_Witness ==
    /\ ingPc = "add" /\ addI = 0
    /\ Count(prior) > 0
    /\ chatPc = "searching"
    /\ qPc = "raised"
    /\ Observed # RecordsOf(prior)
    /\ Observed # RecordsOf(Ingested(gen, repo_path))
    /\ Observed = <<>>

\* where a chat stream can stand: every failure of its calls is answered
\* with a line of the stream
ChatPcs == {"idle", "check", "hybrid", "searching", "fallback", "retrieved",
            "generate", "stream", "done"}

\* what the stream of an empty or unmatched corpus looks like
EmptyStates ==
    /\ chatPc \in ChatPcs
    /\ Line("guidance") # Line("no_results")
    /\ Said("guidance") =>
         /\ chatPc = "done"
         /\ chat_out = <<Line("guidance")>>
         /\ chat_calls = <<[op |-> "get", query |-> "", k |-> 0, ok |-> TRUE]>>
    /\ Said("no_results") =>
         /\ chatPc = "done"
         /\ chat_out = <<Line("no_results")>>
         /\ docs = <<>>
         /\ chat_calls[1] = [op |-> "get", query |-> "", k |-> 0, ok |-> TRUE]
         /\ Called("hybrid_search")
         /\ chat_calls[Len(chat_calls)].ok
         /\ ~Called("llm")
    /\ (chatPc \in {"generate", "stream"} \/ Called("llm") \/ Said("sources_header")) =>
         docs # <<>>

\* the steps that decide between them
EmptySteps ==
    /\ (chatPc = "check" /\ chatPc' # "check" /\ chat_calls'[Len(chat_calls')].ok) =>
         IF Count(store) = 0
         THEN chatPc' = "done" /\ chat_out' = <<Line("guidance")>>
         ELSE chatPc' = "hybrid" /\ chat_out' = <<>>
    /\ (chatPc = "retrieved" /\ chatPc' # "retrieved" /\ docs = <<>>) =>
         chatPc' = "done" /\ chat_out' = <<Line("no_results")>>

\* C21: no exception leaves chat_stream on an empty or unmatched corpus: a
\* store of zero records gives the guidance alone, with no retrieval and no
\* generation; a retrieval of zero chunks from a store that was not empty
\* gives the "no results" message alone, with no generation; the two
\* messages differ
C21_EmptyOrUnmatched == []EmptyStates /\ [][EmptySteps]_vars

\* the store held records when the stream checked it and a run cleared it
\* before the retrieval, which found nothing
C21_Witness ==
    /\ Said("no_results")
    /\ Len(chat_calls) = 3
    /\ chat_calls[3].op = "similarity_search"
    /\ Count(prior) > 0

=============================================================================
